---- MODULE Spec2Model ----
(* The `ini` loadable builtin of src/ini.c: option parsing in ini_builtin,    *)
(* the inih callback `handler`, and the shell variable store they act on.     *)
(* C strings are sequences of one-character strings; the terminating NUL is   *)
(* explicit only inside the buffer that handler builds with memccpy.          *)
EXTENDS Integers, Sequences, FiniteSets, TLC

VARIABLES
  globals,    \* global_variables->table: name -> SHELL_VAR
  locals,     \* one table per function context; variable_context = Len(locals)
  pc,         \* "idle" (no builtin running), "parsing" (inside ini_parse_file), "crashed"
  conf,       \* ini_conf of the running / last invocation
  doc,        \* the lines readable from the descriptor of the running / last invocation
  lineno,     \* ini_parse_file: number of lines consumed
  section,    \* ini_parse_file: current section name
  error,      \* ini_parse_file: line number of the first error, 0 if none
  status,     \* return value of the last completed builtin ($? of the shell)
  errs,       \* errors reported by the running / last invocation
  runs,       \* number of invocations started so far (a command and its repetition)
  given,      \* history: what the argument list of the invocation contained
  made,       \* history: variables created by ini invocations
  bound,      \* history: key/value entries bound by the handler in this invocation
  okSecs,     \* history: sections whose header event succeeded in this invocation
  rep,        \* history: sections whose header event succeeded more than once
  orphan,     \* history: an entry event with an empty section name was handled
  preFail,    \* history: the store just before the handler rejected a derived name
  snap,       \* history: the store after the previous run, when this run repeats it
  fresh       \* history: the last step completed an invocation in this context

vars == <<globals, locals, pc, conf, doc, lineno, section, error, status, errs,
          runs, given, made, bound, okSecs, rep, orphan, preFail, snap, fresh>>

----------------------------------------------------------------------------
(* Bounds of the model *)
MaxLines == 3     \* longest document
MaxArgs == 2      \* longest option list
MaxDepth == 1     \* deepest function nesting

(* Exit statuses used by ini_builtin *)
EXECUTION_SUCCESS == 0
EXECUTION_FAILURE == 1
EX_USAGE == 258

INT_MAX_DIGITS == <<"2","1","4","7","4","8","3","6","4","7">>

----------------------------------------------------------------------------
(* Strings *)
NUL == "\\0"
NULL == <<"(null)">>
Letters == {"c", "s", "t", "k", "v", "w", "r", "u", "e", "x"}
Digits == {"0", "1", "2", "3", "4", "5", "6", "7", "8", "9"}
True == <<"t", "r", "u", "e">>

DigitVal(ch) ==
  CASE ch = "0" -> 0 [] ch = "1" -> 1 [] ch = "2" -> 2 [] ch = "3" -> 3
    [] ch = "4" -> 4 [] ch = "5" -> 5 [] ch = "6" -> 6 [] ch = "7" -> 7
    [] ch = "8" -> 8 [] ch = "9" -> 9

(* legal_identifier: a letter or underscore, then letters, digits, underscores *)
legal_identifier(name) ==
  /\ name # <<>>
  /\ name[1] \in Letters \cup {"_"}
  /\ \A i \in 2..Len(name) : name[i] \in Letters \cup Digits \cup {"_"}

RECURSIVE StripZeros(_)
StripZeros(ds) ==
  IF Len(ds) > 1 /\ ds[1] = "0" THEN StripZeros(Tail(ds)) ELSE ds

(* decimal digit strings compared as numbers, without computing them *)
DigitsLeq(a, b) ==
  \/ Len(a) < Len(b)
  \/ /\ Len(a) = Len(b)
     /\ \/ a = b
        \/ \E i \in 1..Len(a) :
             /\ \A j \in 1..(i - 1) : a[j] = b[j]
             /\ DigitVal(a[i]) < DigitVal(b[i])

RECURSIVE DigitsValue(_)
DigitsValue(ds) ==
  IF ds = <<>> THEN 0
  ELSE DigitsValue(SubSeq(ds, 1, Len(ds) - 1)) * 10 + DigitVal(ds[Len(ds)])

(* legal_number: code 0 when the text is no number; otherwise its sign and digits *)
legal_number(text) ==
  LET signed == text # <<>> /\ text[1] \in {"-", "+"}
      body == IF signed THEN Tail(text) ELSE text
  IN IF body = <<>> \/ \E i \in 1..Len(body) : body[i] \notin Digits
       THEN [code |-> 0, neg |-> FALSE, digits |-> <<"0">>]
       ELSE [code |-> 1,
             neg |-> signed /\ text[1] = "-" /\ StripZeros(body) # <<"0">>,
             digits |-> StripZeros(body)]

(* intval == (int)intval for a non-negative intval *)
FitsInt(n) == DigitsLeq(n.digits, INT_MAX_DIGITS)

(* memccpy(dest + at - 1, src, NUL, n) on a buffer indexed from 1: copies src and *)
(* its NUL if they fit in n bytes and returns the position after the NUL,      *)
(* otherwise copies n bytes and returns 0 (the null pointer).                  *)
memccpy(buf, at, src, n) ==
  LET bytes == src \o <<NUL>>
      fits == Len(bytes) <= n
      cnt == IF fits THEN Len(bytes) ELSE n
  IN [buf |-> [i \in 1..Len(buf) |->
                 IF i >= at /\ i < at + cnt THEN bytes[i - at + 1] ELSE buf[i]],
      p |-> IF fits THEN at + cnt ELSE 0]

RECURSIVE CStr(_)
CStr(buf) ==
  IF buf = <<>> \/ buf[1] = NUL THEN <<>> ELSE <<buf[1]>> \o CStr(Tail(buf))

(* handler, lines 54-73: sec_var_name = toc_var_name "_" section, built by    *)
(* three memccpy calls into a buffer of sec_size bytes; ok is FALSE when one *)
(* of them returns the null pointer                                          *)
NoName == [ok |-> FALSE, name |-> <<>>]

SecCopied(c3) ==
  IF c3.p = 0 THEN NoName ELSE [ok |-> TRUE, name |-> CStr(c3.buf)]

SecCopySection(c2, sec, sec_end) ==
  IF c2.p = 0 THEN NoName
  ELSE SecCopied(memccpy(c2.buf, c2.p - 1, sec, sec_end - c2.p + 2))

SecCopySep(c1, sec, sec_end) ==
  IF c1.p = 0 THEN NoName
  ELSE SecCopySection(memccpy(c1.buf, c1.p - 1, <<"_">>, sec_end - c1.p + 2),
                      sec, sec_end)

SecVarName(toc_var_name, sec) ==
  SecCopySep(memccpy([i \in 1..(Len(toc_var_name) + Len(sec) + 1 + 1) |-> "?"], 1,
                     toc_var_name, Len(toc_var_name) + Len(sec) + 1 + 1),
             sec, Len(toc_var_name) + Len(sec) + 1 + 1)

----------------------------------------------------------------------------
(* The shell variable store *)
EmptyTable == [n \in {} |-> 0]

AssocVar(mk) == [kind |-> "assoc", ro |-> FALSE, tbl |-> {}, mk |-> mk]
ReadonlyVar == [kind |-> "scalar", ro |-> TRUE, tbl |-> {}, mk |-> 0]

Put(table, name, var) ==
  [n \in DOMAIN table \cup {name} |-> IF n = name THEN var ELSE table[n]]

(* find_variable: the innermost function context that has the name, then the *)
(* global table; -1 stands for a null result                                  *)
FindLevel(g, l, name) ==
  IF \E i \in 1..Len(l) : name \in DOMAIN l[i]
    THEN CHOOSE i \in 1..Len(l) :
           /\ name \in DOMAIN l[i]
           /\ \A j \in (i + 1)..Len(l) : name \notin DOMAIN l[j]
    ELSE IF name \in DOMAIN g THEN 0 ELSE -1

VarAt(g, l, lvl, name) == IF lvl = 0 THEN g[name] ELSE l[lvl][name]

PutAt(g, l, lvl, name, var) ==
  IF lvl = 0 THEN [g |-> Put(g, name, var), l |-> l]
  ELSE [g |-> g, l |-> [l EXCEPT ![lvl] = Put(l[lvl], name, var)]]

(* make_new_assoc_variable: always inserts a new, empty associative array into *)
(* the global table; an older global of that name is shadowed by it           *)
make_new_assoc_variable(g, l, name, mk) ==
  [ok |-> TRUE, g |-> Put(g, name, AssocVar(mk)), l |-> l]

(* make_local_assoc_variable: returns the variable of that name that is       *)
(* already local to the current function; refuses to shadow a readonly       *)
(* global; otherwise creates an empty associative array in the current        *)
(* function's table                                                           *)
make_local_assoc_variable(g, l, name, mk) ==
  LET ctx == Len(l)
      lvl == FindLevel(g, l, name)
  IN IF lvl = ctx THEN [ok |-> TRUE, g |-> g, l |-> l]
     ELSE IF lvl = 0 /\ g[name].ro THEN [ok |-> FALSE, g |-> g, l |-> l]
     ELSE [ok |-> TRUE, g |-> g,
           l |-> [l EXCEPT ![ctx] = Put(l[ctx], name, AssocVar(mk))]]

(* bind_assoc_var_internal: the key is inserted or its value overwritten *)
Bind(v, key, value) ==
  [v EXCEPT !.tbl = {p \in v.tbl : p[1] # key} \cup {<<key, value>>}]

(* bind_assoc_variable on the variable find_variable returned at level lvl:   *)
(* a readonly variable is left alone                                          *)
bind_assoc_variable(g, l, lvl, name, key, value) ==
  IF VarAt(g, l, lvl, name).ro THEN [g |-> g, l |-> l]
  ELSE PutAt(g, l, lvl, name, Bind(VarAt(g, l, lvl, name), key, value))

----------------------------------------------------------------------------
(* Inputs *)
Err(kind, name) == [kind |-> kind, name |-> name]

TocNames == {<<"c">>, <<"1">>}
SectionNames == {<<"s">>, <<"t">>, <<"-">>}
FdArgs == {<<"3">>, <<"7">>, <<"-", "1">>, <<"x">>,
           <<"4", "2", "9", "4", "9", "6", "7", "2", "9", "9">>}
OpenFds == {0, 1, 2, 3}

Opt(o, a) == [opt |-> o, arg |-> a]
OptWords ==
  {Opt("a", n) : n \in TocNames} \cup {Opt("u", f) : f \in FdArgs}
    \cup {Opt("g", <<>>), Opt("?", <<>>), Opt("help", <<>>)}

SeqsUpTo(S, n) == UNION {[1..m -> S] : m \in 0..n}

ArgLists == SeqsUpTo(OptWords, MaxArgs)

Header(s) == [t |-> "sec", a |-> s, b |-> <<>>]
Entry(n, v) == [t |-> "ent", a |-> n, b |-> v]
Lines == {Header(s) : s \in SectionNames}
           \cup {Entry(<<"k">>, v) : v \in {<<"v">>, <<"w">>}}
Docs == SeqsUpTo(Lines, MaxLines)

----------------------------------------------------------------------------
(* ini_builtin, lines 124-152: the internal_getopt loop over the words from  *)
(* position i on. ret = -1: the options are exhausted; otherwise the value   *)
(* ini_builtin returns from inside the loop.                                  *)
(* Faulty variant: the -u case stores the descriptor without the two checks  *)
(* of lines 135-143                                                          *)
RECURSIVE GetoptLoopUnchecked(_, _, _)
GetoptLoopUnchecked(args, i, st) ==
  IF i > Len(args) THEN [ret |-> -1, st |-> st, errs |-> {}]
  ELSE
    CASE args[i].opt = "a" ->
           GetoptLoopUnchecked(args, i + 1, [st EXCEPT !.toc_var_name = args[i].arg])
      [] args[i].opt = "g" ->
           GetoptLoopUnchecked(args, i + 1, [st EXCEPT !.global_vars = TRUE])
      [] args[i].opt = "u" ->
           GetoptLoopUnchecked(args, i + 1, st)
      [] args[i].opt = "help" ->
           [ret |-> EX_USAGE, st |-> st, errs |-> {}]
      [] OTHER ->
           [ret |-> EX_USAGE, st |-> st, errs |-> {Err("usage", <<>>)}]

RECURSIVE GetoptLoop(_, _, _)
GetoptLoop(args, i, st) ==
  IF i > Len(args) THEN [ret |-> -1, st |-> st, errs |-> {}]
  ELSE
    LET w == args[i]
        n == legal_number(w.arg)
        fd == DigitsValue(n.digits)
    IN CASE w.opt = "a" ->
              GetoptLoop(args, i + 1, [st EXCEPT !.toc_var_name = w.arg])
         [] w.opt = "g" ->
              GetoptLoop(args, i + 1, [st EXCEPT !.global_vars = TRUE])
         [] w.opt = "u" ->
              IF n.code = 0 \/ n.neg \/ ~FitsInt(n)
                THEN [ret |-> EXECUTION_FAILURE, st |-> st,
                      errs |-> {Err("invalid file descriptor specification", w.arg)}]
              ELSE IF fd \notin OpenFds
                THEN [ret |-> EXECUTION_FAILURE, st |-> st,
                      errs |-> {Err("invalid file descriptor", w.arg)}]
              ELSE GetoptLoop(args, i + 1, [st EXCEPT !.fd = fd])
         [] w.opt = "help" ->
              [ret |-> EX_USAGE, st |-> st, errs |-> {}]
         [] OTHER ->
              [ret |-> EX_USAGE, st |-> st, errs |-> {Err("usage", <<>>)}]

NoConf == [toc_var_name |-> NULL, local_vars |-> FALSE]

(* ini_builtin, lines 153-174, after the option loop left st: ret = -1 means   *)
(* the TOC exists and ini_parse_file is called next                          *)
IniSetup(st, g, l, mk) ==
  IF st.toc_var_name = NULL
    THEN [ret |-> EX_USAGE, conf |-> NoConf, g |-> g, l |-> l,
          errs |-> {Err("usage", <<>>)}]
  ELSE
    LET variable_context == Len(l)
        cf == [toc_var_name |-> st.toc_var_name,
               local_vars |-> (variable_context > 0) /\ (st.global_vars = FALSE)]
        toc_var == IF cf.local_vars
                     THEN make_local_assoc_variable(g, l, cf.toc_var_name, mk)
                     ELSE make_new_assoc_variable(g, l, cf.toc_var_name, mk)
    IN IF ~toc_var.ok
         THEN [ret |-> 0, conf |-> cf, g |-> toc_var.g, l |-> toc_var.l,
               errs |-> {Err("Could not make", cf.toc_var_name)}]
         ELSE [ret |-> -1, conf |-> cf, g |-> toc_var.g, l |-> toc_var.l,
               errs |-> {}]

ReadError == Err("Unable to read from fd", <<>>)

(* ini_builtin, lines 176-180: the status for ini_parse_file's return value *)
IniReturn(parsed) ==
  IF parsed < 0
    THEN [ret |-> EXECUTION_FAILURE, errs |-> {ReadError}]
    ELSE [ret |-> EXECUTION_SUCCESS, errs |-> {}]

(* What one call of handler did: its return value, the store it left, the   *)
(* errors it reported; ub is TRUE when it passed a null or non-associative   *)
(* variable to bind_assoc_variable                                            *)
Out(ret, g, l, es) == [ret |-> ret, g |-> g, l |-> l, errs |-> es, ub |-> FALSE]

Stored(b) == Out(1, b.g, b.l, {})

(* handler, lines 87-99: the child table is made and checked *)
SectionMade(sec_var, sec_var_name) ==
  IF ~sec_var.ok
    THEN Out(0, sec_var.g, sec_var.l, {Err("Could not make", sec_var_name)})
    ELSE Out(1, sec_var.g, sec_var.l, {})

(* Faulty variant: the child table is always made global *)
SectionBoundGlobal(cf, sec_var_name, b, mk) ==
  SectionMade(make_new_assoc_variable(b.g, b.l, sec_var_name, mk), sec_var_name)

(* handler, lines 86-93: the section is entered in the TOC (store b is the     *)
(* result) and the child table is made in the scope conf->local_vars selects *)
SectionBound(cf, sec_var_name, b, mk) ==
  SectionMade(IF cf.local_vars
                THEN make_local_assoc_variable(b.g, b.l, sec_var_name, mk)
                ELSE make_new_assoc_variable(b.g, b.l, sec_var_name, mk),
              sec_var_name)

(* handler, lines 80-100: a new section *)
OnSection(cf, sec_var_name, sec, toc_lvl, g, l, mk) ==
  IF toc_lvl = -1
    THEN Out(0, g, l, {Err("Could not find", cf.toc_var_name)})
    ELSE SectionBound(cf, sec_var_name,
                      bind_assoc_variable(g, l, toc_lvl, cf.toc_var_name, sec, True), mk)

(* Faulty variant: bind_assoc_variable is called with ASS_APPEND, so a value *)
(* is appended to the one the key already has                                *)
BindAppend(v, key, value) ==
  [v EXCEPT !.tbl = {p \in v.tbl : p[1] # key}
                      \cup {<<key, IF \E p \in v.tbl : p[1] = key
                                     THEN (CHOOSE p \in v.tbl : p[1] = key)[2] \o value
                                     ELSE value>>}]

OnEntryAppend(sec_var_name, name, value, sec_lvl, g, l) ==
  IF sec_lvl = -1
    THEN [Out(1, g, l, {}) EXCEPT !.ub = TRUE]
  ELSE IF VarAt(g, l, sec_lvl, sec_var_name).ro
    THEN Out(1, g, l, {Err("readonly variable", sec_var_name)})
  ELSE IF VarAt(g, l, sec_lvl, sec_var_name).kind # "assoc"
    THEN [Out(1, g, l, {}) EXCEPT !.ub = TRUE]
  ELSE Stored(PutAt(g, l, sec_lvl, sec_var_name,
                    BindAppend(VarAt(g, l, sec_lvl, sec_var_name), name, value)))

(* handler, lines 109-112: a name and its value; sec_lvl is where             *)
(* find_variable(sec_var_name) found the variable                            *)
OnEntry(sec_var_name, name, value, sec_lvl, g, l) ==
  IF sec_lvl = -1
    THEN [Out(1, g, l, {}) EXCEPT !.ub = TRUE]
  ELSE IF VarAt(g, l, sec_lvl, sec_var_name).ro
    THEN Out(1, g, l, {Err("readonly variable", sec_var_name)})
  ELSE IF VarAt(g, l, sec_lvl, sec_var_name).kind # "assoc"
    THEN [Out(1, g, l, {}) EXCEPT !.ub = TRUE]
  ELSE Stored(bind_assoc_variable(g, l, sec_lvl, sec_var_name, name, value))

(* Faulty variant: a new section is entered in the TOC before its derived    *)
(* name is checked                                                           *)
HandlerNamedLateCheck(cf, sv, sec, name, value, g, l, mk) ==
  IF ~sv.ok
    THEN Out(0, g, l, {Err("Unable to create section name", <<>>)})
  ELSE IF name = NULL /\ value = NULL /\ ~legal_identifier(sv.name)
    THEN [Stored(bind_assoc_variable(g, l, FindLevel(g, l, cf.toc_var_name),
                                     cf.toc_var_name, sec, True))
            EXCEPT !.ret = 0, !.errs = {Err("not a valid identifier", sv.name)}]
  ELSE IF ~legal_identifier(sv.name)
    THEN Out(0, g, l, {Err("not a valid identifier", sv.name)})
  ELSE IF name = NULL /\ value = NULL
    THEN OnSection(cf, sv.name, sec, FindLevel(g, l, cf.toc_var_name), g, l, mk)
  ELSE OnEntry(sv.name, name, value, FindLevel(g, l, sv.name), g, l)

(* handler, lines 74-113, sv being the derived name of lines 54-73 *)
HandlerNamed(cf, sv, sec, name, value, g, l, mk) ==
  IF ~sv.ok
    THEN Out(0, g, l, {Err("Unable to create section name", <<>>)})
  ELSE IF ~legal_identifier(sv.name)
    THEN Out(0, g, l, {Err("not a valid identifier", sv.name)})
  ELSE IF name = NULL /\ value = NULL
    THEN OnSection(cf, sv.name, sec, FindLevel(g, l, cf.toc_var_name), g, l, mk)
  ELSE IF name = NULL
    THEN Out(0, g, l, {Err("Malformed ini, name is NULL!", <<>>)})
  ELSE IF value = NULL
    THEN Out(0, g, l, {Err("Malformed ini, value is NULL!", <<>>)})
  ELSE OnEntry(sv.name, name, value, FindLevel(g, l, sv.name), g, l)

(* handler, lines 49-113 *)
Handler(cf, sec, name, value, g, l, mk) ==
  HandlerNamed(cf, SecVarName(cf.toc_var_name, sec), sec, name, value, g, l, mk)

----------------------------------------------------------------------------
(* The variables the user's shell may hold before ini is first called *)
UserReadonly == {<<"c">>, <<"c", "_", "s">>}
UserAssoc == {<<"c", "_">>}

UserTable(ro, as) ==
  [n \in ro \cup as |-> IF n \in ro THEN ReadonlyVar ELSE AssocVar(0)]

NoStore == [g |-> EmptyTable, l |-> <<>>, line |-> -1]
NoGiven == [hasA |-> FALSE, aFirst |-> FALSE, badU |-> FALSE, g |-> FALSE]

Init ==
  /\ \E ro \in SUBSET UserReadonly, as \in SUBSET UserAssoc :
       globals = UserTable(ro, as)
  /\ locals = <<>>
  /\ pc = "idle"
  /\ conf = NoConf
  /\ doc = <<>>
  /\ lineno = 0
  /\ section = <<>>
  /\ error = 0
  /\ status = EXECUTION_SUCCESS
  /\ errs = {}
  /\ runs = 0
  /\ given = NoGiven
  /\ made = {}
  /\ bound = {}
  /\ okSecs = {}
  /\ rep = {}
  /\ orphan = FALSE
  /\ preFail = NoStore
  /\ snap = NoStore
  /\ fresh = FALSE

(* history: the variables of run mk that g2, l2 hold and g, l do not *)
Created(g, l, g2, l2, mk, role, want) ==
  {[name |-> n, run |-> mk, role |-> role, lvl |-> 0, want |-> want, gone |-> FALSE] :
     n \in {x \in DOMAIN g2 : g2[x].mk = mk /\ (x \notin DOMAIN g \/ g[x].mk # mk)}}
  \cup
  UNION {{[name |-> n, run |-> mk, role |-> role, lvl |-> i, want |-> want,
           gone |-> FALSE] :
            n \in {x \in DOMAIN l2[i] : l2[i][x].mk = mk /\ x \notin DOMAIN l[i]}} :
         i \in 1..Len(l2)}

HistoryReset ==
  /\ bound' = {}
  /\ okSecs' = {}
  /\ rep' = {}
  /\ orphan' = FALSE
  /\ preFail' = NoStore

(* A shell function is entered: a new, empty variable context *)
Call ==
  /\ pc = "idle"
  /\ Len(locals) < MaxDepth
  /\ locals' = Append(locals, EmptyTable)
  /\ conf' = NoConf /\ doc' = <<>> /\ lineno' = 0 /\ section' = <<>> /\ error' = 0
  /\ errs' = {} /\ given' = NoGiven /\ snap' = NoStore /\ fresh' = FALSE
  /\ HistoryReset
  /\ UNCHANGED <<globals, pc, status, runs, made>>

(* The shell function returns: its variable context is discarded *)
Return ==
  /\ pc = "idle"
  /\ Len(locals) > 0
  /\ locals' = SubSeq(locals, 1, Len(locals) - 1)
  /\ made' = {IF m.lvl = Len(locals) THEN [m EXCEPT !.gone = TRUE] ELSE m : m \in made}
  /\ conf' = NoConf /\ doc' = <<>> /\ lineno' = 0 /\ section' = <<>> /\ error' = 0
  /\ errs' = {} /\ given' = NoGiven /\ snap' = NoStore /\ fresh' = FALSE
  /\ HistoryReset
  /\ UNCHANGED <<globals, pc, status, runs>>

BadFdArgs == FdArgs \ {<<"3">>}

(* ini_builtin up to the call of ini_parse_file (lines 117-175), o being what *)
(* the option loop left and ds the documents the descriptor may hold         *)
Begin(o, gv, ds, again) ==
  \E mk \in {runs + 1} :
  \E s \in {IniSetup(o.st, globals, locals, mk)} :
  \E want \in {IF Len(locals) > 0 /\ ~gv.g THEN Len(locals) ELSE 0} :
  \E before \in {IF again /\ ReadError \notin errs
                    THEN [g |-> globals, l |-> locals, line |-> 0]
                    ELSE NoStore} :
     /\ runs' = mk
     /\ given' = gv
     /\ HistoryReset
     /\ lineno' = 0 /\ section' = <<>> /\ error' = 0
     /\ snap' = before
     /\ IF o.ret # -1
          THEN /\ status' = o.ret /\ errs' = o.errs
               /\ pc' = "idle" /\ conf' = NoConf /\ doc' = <<>>
               /\ fresh' = TRUE
               /\ UNCHANGED <<globals, locals, made>>
        ELSE IF s.ret # -1
          THEN /\ status' = s.ret /\ errs' = s.errs
               /\ pc' = "idle" /\ conf' = s.conf /\ doc' = <<>>
               /\ globals' = s.g /\ locals' = s.l
               /\ made' = made \cup Created(globals, locals, s.g, s.l, mk, "toc", want)
               /\ fresh' = TRUE
        ELSE \E d \in ds :
               /\ errs' = {} /\ pc' = "parsing" /\ conf' = s.conf /\ doc' = d
               /\ globals' = s.g /\ locals' = s.l
               /\ made' = made \cup Created(globals, locals, s.g, s.l, mk, "toc", want)
               /\ fresh' = FALSE
               /\ UNCHANGED status

NoOptions == [toc_var_name |-> NULL, global_vars |-> FALSE, fd |-> 0]

(* The command `ini ARGS <DOC` is issued *)
Invoke ==
  /\ pc = "idle"
  /\ runs = 0
  /\ \E args \in ArgLists :
       Begin(GetoptLoop(args, 1, NoOptions),
             [hasA |-> \E i \in 1..Len(args) : args[i].opt = "a",
              aFirst |-> args # <<>> /\ args[1].opt = "a",
              badU |-> \E i \in 1..Len(args) :
                         args[i].opt = "u" /\ args[i].arg \in BadFdArgs,
              g |-> \E i \in 1..Len(args) : args[i].opt = "g"],
             Docs, FALSE)

(* The same command is issued once more, in the same context, on the same    *)
(* document. A behaviour is one command and, possibly, its repetition.       *)
Reinvoke ==
  /\ pc = "idle"
  /\ runs = 1
  /\ fresh
  /\ conf # NoConf
  /\ Begin([ret |-> -1,
            st |-> [NoOptions EXCEPT !.toc_var_name = conf.toc_var_name,
                                     !.global_vars = given.g],
            errs |-> {}],
           given, {doc}, TRUE)

(* history: the scope the documentation promises for the running invocation *)
WantLevel == IF Len(locals) > 0 /\ ~given.g THEN Len(locals) ELSE 0

(* ini_parse_file with INI_CALL_HANDLER_ON_NEW_SECTION: the next line is a    *)
(* section header; the parser records the section and calls                  *)
(* handler(user, section, NULL, NULL)                                         *)
ParseSection ==
  /\ pc = "parsing"
  /\ error = 0
  /\ lineno < Len(doc)
  /\ doc[lineno + 1].t = "sec"
  /\ \E sec \in {doc[lineno + 1].a} :
     \E h \in {Handler(conf, sec, NULL, NULL, globals, locals, runs)} :
     \E rejected \in {\E e \in h.errs : e.kind = "not a valid identifier"} :
        /\ lineno' = lineno + 1
        /\ section' = sec
        /\ error' = IF h.ret = 0 THEN lineno + 1 ELSE 0
        /\ globals' = h.g
        /\ locals' = h.l
        /\ errs' = errs \cup h.errs
        /\ made' = made \cup Created(globals, locals, h.g, h.l, runs, "sec", WantLevel)
        /\ okSecs' = IF h.ret = 1 THEN okSecs \cup {sec} ELSE okSecs
        /\ rep' = IF h.ret = 1 /\ sec \in okSecs THEN rep \cup {sec} ELSE rep
        /\ preFail' = IF rejected
                        THEN [g |-> globals, l |-> locals, line |-> lineno + 1]
                        ELSE preFail
  /\ UNCHANGED <<pc, conf, doc, status, runs, given, bound, orphan, snap, fresh>>

(* ini_parse_file: the next line is name=value; the parser calls              *)
(* handler(user, section, name, value). Passing a null or non-associative    *)
(* variable to bind_assoc_variable is undefined: the shell dies, or the call  *)
(* happens to have no effect.                                                 *)
ParseEntry ==
  /\ pc = "parsing"
  /\ error = 0
  /\ lineno < Len(doc)
  /\ doc[lineno + 1].t = "ent"
  /\ \E name \in {doc[lineno + 1].a}, value \in {doc[lineno + 1].b} :
     \E h \in {Handler(conf, section, name, value, globals, locals, runs)} :
     \E sv \in {SecVarName(conf.toc_var_name, section)} :
     \E lvl \in {FindLevel(globals, locals, sv.name)} :
     \E rejected \in {\E e \in h.errs : e.kind = "not a valid identifier"} :
     \E wrote \in {h.ret = 1 /\ ~h.ub /\ h.errs = {}} :
        /\ lineno' = lineno + 1
        /\ error' = IF h.ret = 0 THEN lineno + 1 ELSE 0
        /\ globals' = h.g
        /\ locals' = h.l
        /\ errs' = errs \cup h.errs
        /\ orphan' = (orphan \/ section = <<>>)
        /\ bound' = IF wrote
                      THEN bound \cup {[section |-> section, name |-> name,
                                        value |-> value, var |-> sv.name, lvl |-> lvl,
                                        mk |-> VarAt(globals, locals, lvl, sv.name).mk]}
                      ELSE bound
        /\ preFail' = IF rejected
                        THEN [g |-> globals, l |-> locals, line |-> lineno + 1]
                        ELSE preFail
        /\ IF h.ub THEN pc' \in {"crashed", "parsing"} ELSE pc' = "parsing"
  /\ UNCHANGED <<conf, doc, section, status, runs, given, made, okSecs, rep, snap, fresh>>

(* ini_parse_file cannot allocate its line buffer and returns -2 before       *)
(* reading; ini_builtin reports it and fails (lines 176-179)                  *)
ParseNoMem ==
  /\ pc = "parsing"
  /\ lineno = 0
  /\ LET r == IniReturn(-2)
     IN /\ status' = r.ret
        /\ errs' = errs \cup r.errs
  /\ pc' = "idle"
  /\ fresh' = TRUE
  /\ UNCHANGED <<globals, locals, conf, doc, lineno, section, error, runs, given, made,
                 bound, okSecs, rep, orphan, preFail, snap>>

(* ini_parse_file stops at the end of the input or at the first error and    *)
(* returns the line number of that error, 0 if there was none; ini_builtin   *)
(* returns (lines 176-180)                                                    *)
ParseEnd ==
  /\ pc = "parsing"
  /\ (lineno = Len(doc) \/ error # 0)
  /\ LET r == IniReturn(error)
     IN /\ status' = r.ret
        /\ errs' = errs \cup r.errs
  /\ pc' = "idle"
  /\ fresh' = TRUE
  /\ UNCHANGED <<globals, locals, conf, doc, lineno, section, error, runs, given, made,
                 bound, okSecs, rep, orphan, preFail, snap>>

Next ==
  \/ Call
  \/ Return
  \/ Invoke
  \/ Reinvoke
  \/ ParseSection
  \/ ParseEntry
  \/ ParseNoMem
  \/ ParseEnd

Spec == Init /\ [][Next]_vars

----------------------------------------------------------------------------
(* What the shell sees *)
Visible(name) == FindLevel(globals, locals, name) # -1

VisTbl(name) ==
  IF Visible(name)
    THEN VarAt(globals, locals, FindLevel(globals, locals, name), name).tbl
    ELSE {}

Derived(root, sec) == root \o <<"_">> \o sec

ThisRun == {m \in made : m.run = runs}

(* What a document says *)
HeaderLines(d) == {i \in 1..Len(d) : d[i].t = "sec"}
EntryLines(d) == {i \in 1..Len(d) : d[i].t = "ent"}

SectionAt(d, i) ==
  IF \E j \in HeaderLines(d) : j < i
    THEN d[CHOOSE j \in HeaderLines(d) :
             j < i /\ \A k \in HeaderLines(d) : k < i => k <= j].a
    ELSE <<>>

WellFormed(d, root) ==
  /\ legal_identifier(root)
  /\ \A i \in EntryLines(d) : \E j \in HeaderLines(d) : j < i
  /\ \A i \in HeaderLines(d) : legal_identifier(Derived(root, d[i].a))

ExpectedToc(d) == {<<d[i].a, True>> : i \in HeaderLines(d)}

ExpectedSection(d, sec) ==
  {<<d[i].a, d[i].b>> :
     i \in {e \in EntryLines(d) :
              /\ SectionAt(d, e) = sec
              /\ \A f \in EntryLines(d) :
                   (f > e /\ SectionAt(d, f) = sec) => d[f].a # d[e].a}}

Succeeded ==
  /\ pc = "idle" /\ fresh /\ conf # NoConf
  /\ status = EXECUTION_SUCCESS /\ errs = {}
  /\ lineno = Len(doc)

(* C1: after ini succeeds on a well-formed document with root R, R holds     *)
(* exactly one "true" entry per section name and each table R_<section>      *)
(* holds exactly that section's pairs, the last value winning for a key.     *)
C1_Contents ==
  (Succeeded /\ WellFormed(doc, conf.toc_var_name)) =>
    /\ VisTbl(conf.toc_var_name) = ExpectedToc(doc)
    /\ \A i \in HeaderLines(doc) :
         /\ Visible(Derived(conf.toc_var_name, doc[i].a))
         /\ VisTbl(Derived(conf.toc_var_name, doc[i].a)) = ExpectedSection(doc, doc[i].a)

(* C2: an invocation that reported an error never returns EXECUTION_SUCCESS. *)
C2_FailureStatus ==
  (pc = "idle" /\ fresh /\ errs # {}) => status # EXECUTION_SUCCESS

(* C3: when a section header whose derived name is no legal identifier has   *)
(* been handled, the error naming it has been reported, no later line is     *)
(* handled, and the store stays what it was just before that header, the TOC *)
(* listing the sections of the headers before it.                            *)
C3_AbortKeepsEarlier ==
  \A i \in HeaderLines(doc) :
    (i <= lineno /\ ~legal_identifier(Derived(conf.toc_var_name, doc[i].a))) =>
      /\ Err("not a valid identifier", Derived(conf.toc_var_name, doc[i].a)) \in errs
      /\ lineno = i
      /\ preFail.line = i
      /\ globals = preFail.g
      /\ locals = preFail.l
      /\ \A j \in HeaderLines(doc) :
           j < i => <<doc[j].a, True>> \in VisTbl(conf.toc_var_name)

C3_Witness ==
  /\ pc = "idle" /\ fresh
  /\ preFail # NoStore /\ preFail.line = 2
  /\ doc = <<Header(<<"s">>), Header(<<"-">>), Header(<<"t">>)>>
  /\ VisTbl(conf.toc_var_name) = {<<(<<"s">>), True>>}
  /\ Visible(Derived(conf.toc_var_name, <<"s">>))
  /\ ~Visible(Derived(conf.toc_var_name, <<"t">>))

(* C4: an entry that arrives before any section header is reported as a     *)
(* malformed entry and the invocation creates no binding at all.             *)
C4_OrphanEntry ==
  (orphan /\ legal_identifier(conf.toc_var_name)) =>
    /\ \E e \in errs : e.kind \in {"Malformed ini, name is NULL!",
                                   "Malformed ini, value is NULL!"}
    /\ ThisRun = {}
    /\ bound = {}

(* C5: a command line without -a, or with a -u argument that is no           *)
(* non-negative int or no open descriptor, returns a non-zero status without *)
(* creating any variable and without starting to parse.                      *)
C5_ArgumentErrors ==
  [][(pc = "idle" /\ runs' = runs + 1 /\ (~given'.hasA \/ given'.badU)) =>
       /\ status' # EXECUTION_SUCCESS
       /\ globals' = globals /\ locals' = locals /\ made' = made
       /\ pc' = "idle" /\ lineno' = 0 /\ doc' = <<>>]_vars

C5_Witness ==
  /\ pc = "idle" /\ fresh
  /\ given.aFirst /\ given.badU
  /\ status = EXECUTION_FAILURE
  /\ made = {}

(* history: the variable that m records is held at level i *)
HeldAt(m, i) ==
  IF i = 0 THEN m.name \in DOMAIN globals /\ globals[m.name].mk = m.run
  ELSE i <= Len(locals) /\ m.name \in DOMAIN locals[i] /\ locals[i][m.name].mk = m.run

(* C6: every variable an invocation creates is in the scope its context and *)
(* -g select (the function's context when nested without -g, else global),   *)
(* the same for the TOC and the child tables; a local one is gone once its   *)
(* function has returned, a global one stays.                                *)
C6_Scope ==
  \A m \in made :
    /\ m.lvl = m.want
    /\ \A n \in made : n.run = m.run => n.lvl = m.lvl
    /\ m.gone => \A i \in 0..Len(locals) : ~HeldAt(m, i)
    /\ (m.lvl > 0 /\ ~m.gone) => HeldAt(m, m.lvl) /\ ~HeldAt(m, 0)
    /\ m.lvl = 0 => m.name \in DOMAIN globals /\ globals[m.name].mk >= m.run

C6_Witness ==
  /\ locals = <<>>
  /\ \E m \in made : m.role = "toc" /\ m.gone /\ ~Visible(m.name)
  /\ \E m \in made : m.role = "sec" /\ m.gone /\ ~Visible(m.name)

(* C7: when a section header occurs again, the keys bound under the earlier  *)
(* occurrence are still in the table R_<section>.                            *)
C7_RepeatedSection ==
  \A b \in bound :
    b.section \in rep => \E p \in VisTbl(b.var) : p[1] = b.name

(* the contents of a variable table, whoever created the variables *)
Contents(table) == [n \in DOMAIN table |-> [table[n] EXCEPT !.mk = 0]]

(* C8: issuing the same command on the same document a second time, both     *)
(* times reading the document, leaves every variable with the contents it    *)
(* had after the first time.                                                 *)
C8_Idempotent ==
  (pc = "idle" /\ fresh /\ snap # NoStore /\ ReadError \notin errs) =>
    /\ Contents(globals) = Contents(snap.g)
    /\ Len(locals) = Len(snap.l)
    /\ \A i \in 1..Len(locals) : Contents(locals[i]) = Contents(snap.l[i])

C8_Witness ==
  /\ pc = "idle" /\ fresh /\ snap # NoStore
  /\ conf.local_vars
  /\ status = EXECUTION_SUCCESS
  /\ Len(doc) = 3 /\ bound # {}
  /\ \E b \in bound : VisTbl(b.var) # {}

(* C9: every variable ini creates has a name that is a legal identifier.     *)
C9_LegalNames == \A m \in made : legal_identifier(m.name)

(* C10: every entry the handler binds goes into a table that a successful    *)
(* header event of the same invocation created for that section, and the TOC *)
(* lists that section.                                                       *)
C10_EntryUnderSection ==
  \A b \in bound :
    /\ b.section \in okSecs
    /\ b.mk = runs
    /\ <<b.section, True>> \in VisTbl(conf.toc_var_name)

====
